---------------------------- MODULE Spec2Model ----------------------------
(***************************************************************************)
(* Model of src/main.rs: a particle swarm in a cube, one pitched rotating  *)
(* blade, and the trial controller that sweeps the blade pitch.            *)
(*                                                                         *)
(* Numbers.  The program computes in f32.  The model is a fixed-point      *)
(* rendering of the same arithmetic:                                       *)
(*   lengths     in tenths of a unit       (5.0 is 50, 0.2 is 2)           *)
(*   velocities  in tenths of a unit per second                            *)
(*   time        in whole seconds                                          *)
(*   angles      in whole degrees (the program converts degrees to radians *)
(*               on both sides of every comparison)                        *)
(*   angular velocity in tenths of a degree per second                     *)
(*   sin, cos    in thousandths                                            *)
(*   impulse     in tenths                                                 *)
(* Quotients are truncated toward zero (Fx).                               *)
(***************************************************************************)
EXTENDS Integers, Sequences, FiniteSets

VARIABLES
    total_time,  \* TIME_ELAPSED
    trial,       \* TRIAL
    data,        \* DATA_ROW
    prop,        \* the Propeller component
    parts,       \* the Particle entities: sequence of [pos, vel]
    csv_len,     \* number of records in output.csv
    exited,      \* std::process::exit(0) has been called
    dt,          \* Time::delta_seconds() of the current frame
    ran,         \* systems of the Update schedule that have run this frame
    ticks,       \* frames begun so far
    out,         \* what the last step did (observation of its outputs)
    sampled,     \* history: impulses sampled at the boundaries of the group
    pre          \* history: particles and blade before the last system ran

vars == <<total_time, trial, data, prop, parts, csv_len, exited,
          dt, ran, ticks, out, sampled, pre>>

-----------------------------------------------------------------------------
(* Fixed-point helpers                                                     *)

Abs(x) == IF x < 0 THEN -x ELSE x

Fx(a, b) == IF a >= 0 THEN a \div b ELSE -((-a) \div b)

\* the largest k in lo..hi with k * k <= n, by bisection
RECURSIVE Bisect(_, _, _)
Bisect(n, lo, hi) ==
  IF lo >= hi THEN lo
  ELSE LET mid == (lo + hi + 1) \div 2 IN
         IF mid * mid <= n THEN Bisect(n, mid, hi) ELSE Bisect(n, lo, mid - 1)

\* f32::sqrt, truncated
ISqrt(n) == Bisect(n, 0, 1024)

SinTab ==
  << 17, 35, 52, 70, 87, 105, 122, 139, 156, 174, 191, 208, 225, 242, 259,
     276, 292, 309, 326, 342, 358, 375, 391, 407, 423, 438, 454, 469, 485,
     500, 515, 530, 545, 559, 574, 588, 602, 616, 629, 643, 656, 669, 682,
     695, 707, 719, 731, 743, 755, 766, 777, 788, 799, 809, 819, 829, 839,
     848, 857, 866, 875, 883, 891, 899, 906, 914, 921, 927, 934, 940, 946,
     951, 956, 961, 966, 970, 974, 978, 982, 985, 988, 990, 993, 995, 996,
     998, 999, 999, 1000, 1000 >>

Sin90(d) == IF d = 0 THEN 0 ELSE SinTab[d]

\* f32::to_radians().sin() of an angle in degrees, in thousandths
Sin(d) ==
  LET m == d % 360 IN
    IF m <= 90 THEN Sin90(m)
    ELSE IF m <= 180 THEN Sin90(180 - m)
    ELSE IF m <= 270 THEN -Sin90(m - 180)
    ELSE -Sin90(360 - m)

Cos(d) == Sin(d + 90)

\* f32::atan(num / den) in degrees for num >= 0, den >= 0 (not both 0)
AtanPos(num, den) ==
  IF den = 0 THEN 90
  ELSE CHOOSE k \in 0..89 :
         /\ Sin90(k) * den <= num * Sin90(90 - k)
         /\ Sin90(k + 1) * den > num * Sin90(89 - k)

Dot(a, b) == a[1] * b[1] + a[2] * b[2] + a[3] * b[3]

Cross(a, b) == << a[2] * b[3] - a[3] * b[2],
                  a[3] * b[1] - a[1] * b[3],
                  a[1] * b[2] - a[2] * b[1] >>

Norm2(a) == Dot(a, a)

Sub(a, b) == << a[1] - b[1], a[2] - b[2], a[3] - b[3] >>

Add(a, b) == << a[1] + b[1], a[2] + b[2], a[3] + b[3] >>

Scale(k, a) == << k * a[1], k * a[2], k * a[3] >>

Origin == << 0, 0, 0 >>

\* Vec3::distance(a, b) <= r, decided on the squares
Within(a, b, r) == Norm2(Sub(a, b)) <= r * r


-----------------------------------------------------------------------------
(* Program constants                                                       *)

THETA_PITCH == 5

START_PROP_VELOCITY == 20

START_PITCH == 45

TERMINAL_PITCH == 85

TRIAL_SECONDS == 10

TRIALS_PER_ROW == 8

WALL == 50

PAIR_RADIUS == 2

SWEEP_RADIUS == 40

PROP_MASS == 5

PART_MASS == 5

DRIVE_POWER == 50000

\* moi = (1.0/3.0) * mass * 16.0, kept as the fraction MoiNum / MoiDen
MoiNum == PROP_MASS * 16

MoiDen == 3

-----------------------------------------------------------------------------
(* move_particles                                                          *)

MoveOne(p, d) == [p EXCEPT !.pos = Add(p.pos, Scale(d, p.vel))]

MoveParticles(ps, d) == [i \in 1..Len(ps) |-> MoveOne(ps[i], d)]

-----------------------------------------------------------------------------
(* wall_collisions                                                         *)

\* (x / x.abs()) * 5.0
ClampCoord(c) == Fx(c, Abs(c)) * WALL

\* the coordinate is clamped but the velocity component is kept
WallAxisNoFlip(p, i) ==
  IF Abs(p.pos[i]) > WALL
    THEN [p EXCEPT !.pos[i] = ClampCoord(p.pos[i])]
    ELSE p

WallAxis(p, i) ==
  IF Abs(p.pos[i]) > WALL
    THEN [p EXCEPT !.pos[i] = ClampCoord(p.pos[i]), !.vel[i] = -p.vel[i]]
    ELSE p

WallOne(p) == WallAxis(WallAxis(WallAxis(p, 1), 2), 3)

WallCollisions(ps) == [i \in 1..Len(ps) |-> WallOne(ps[i])]

-----------------------------------------------------------------------------
(* compare_particles: the loop over i < j, in the order the code runs it.  *)
(* The result keeps the set of particles that took part in a collision.    *)

\* the second particle keeps its velocity: a copy, not a swap
PairCollideKeepA(st, i, j, d) ==
  LET a == st.ps[i]
      b == st.ps[j]
  IN  [ps  |-> [st.ps EXCEPT
                  ![i] = [pos |-> Sub(a.pos, Scale(d, a.vel)), vel |-> b.vel],
                  ![j] = [pos |-> Sub(b.pos, Scale(d, b.vel)), vel |-> b.vel]],
       hit |-> st.hit \cup {i, j}]

PairCollide(st, i, j, d) ==
  LET a == st.ps[i]
      b == st.ps[j]
  IN  [ps  |-> [st.ps EXCEPT
                  ![i] = [pos |-> Sub(a.pos, Scale(d, a.vel)), vel |-> b.vel],
                  ![j] = [pos |-> Sub(b.pos, Scale(d, b.vel)), vel |-> a.vel]],
       hit |-> st.hit \cup {i, j}]

PairTest(st, i, j, d) ==
  IF Within(st.ps[i].pos, st.ps[j].pos, PAIR_RADIUS)
    THEN PairCollide(st, i, j, d)
    ELSE st

RECURSIVE PairLoop(_, _, _, _)
PairLoop(st, i, j, d) ==
  IF i > Len(st.ps) THEN st
  ELSE IF j > Len(st.ps) THEN PairLoop(st, i + 1, i + 2, d)
  ELSE PairLoop(PairTest(st, i, j, d), i, j + 1, d)

CompareParticles(ps, d) == PairLoop([ps |-> ps, hit |-> {}], 1, 2, d)

-----------------------------------------------------------------------------
(* blade_collisions                                                        *)

\* part_transform.translation[1].abs() < 0.5 * sin(pitch)
VerticalGate(pr, pos) == 2000 * Abs(pos[2]) < 10 * Sin(pr.pitch)

\* distance_between(&part_transform, &Transform::default()) < 4.0
RadialGate(pos) == Norm2(pos) < SWEEP_RADIUS * SWEEP_RADIUS

\* The azimuth.  atan(x / z), plus 180 degrees when z < 0, else plus the
\* program's 6.28315307 (360 degrees at this resolution) when negative.
\* x = z = 0 divides 0.0 by 0.0: the NaN fails both comparisons of the
\* sweep window, which HasTheta records.
HasTheta(pos) == ~(pos[1] = 0 /\ pos[3] = 0)

RawAtan(x, z) ==
  IF (x >= 0) = (z >= 0)
    THEN AtanPos(Abs(x), Abs(z))
    ELSE -AtanPos(Abs(x), Abs(z))

Theta(pos) ==
  LET t == RawAtan(pos[1], pos[3]) IN
    IF pos[3] < 0 THEN t + 180
    ELSE IF t < 0 THEN t + 360
    ELSE t

\* atan(cos(pitch) / (2.0 * distance))
AngleModifier(pr, pos) == AtanPos(Cos(pr.pitch), 200 * ISqrt(Norm2(pos)))

SweepWindow(pr, pos) ==
  /\ HasTheta(pos)
  /\ Theta(pos) < pr.rotation_z + AngleModifier(pr, pos)
  /\ Theta(pos) > pr.old_rotation_z - AngleModifier(pr, pos)

\* the vertical gate is left out
BladeHitsNoVertical(pr, pos) ==
  /\ RadialGate(pos)
  /\ SweepWindow(pr, pos)

BladeHits(pr, pos) ==
  /\ VerticalGate(pr, pos)
  /\ RadialGate(pos)
  /\ SweepWindow(pr, pos)

NormalOf(unit_parallel, unit_tilt) ==
  LET c == Cross(unit_parallel, unit_tilt)
  IN  << Fx(c[1], 1000), Fx(c[2], 1000), Fx(c[3], 1000) >>

TiltOf(r, down_value, out_value) ==
  << Fx(Sin(r - 90) * out_value, 1000),
     down_value,
     Fx(Cos(r - 90) * out_value, 1000) >>

\* unit_parallel.cross(&unit_tilt), with out_value = sqrt(1 - down_value^2)
UnitNormal(pr) ==
  NormalOf(<< Sin(pr.rotation_z), 0, Cos(pr.rotation_z) >>,
           TiltOf(pr.rotation_z, -Sin(pr.pitch),
                  ISqrt(1000000 - Sin(pr.pitch) * Sin(pr.pitch))))

\* (2.0 * propeller.mass * particle.mass * scalar * unit_normal)
\*   / (propeller.mass + particle.mass)
ImpulseOf(scalar, unit_normal) ==
  << Fx(2 * PROP_MASS * PART_MASS * scalar * unit_normal[1],
        1000 * (PROP_MASS + PART_MASS)),
     Fx(2 * PROP_MASS * PART_MASS * scalar * unit_normal[2],
        1000 * (PROP_MASS + PART_MASS)),
     Fx(2 * PROP_MASS * PART_MASS * scalar * unit_normal[3],
        1000 * (PROP_MASS + PART_MASS)) >>

\* propeller_speed * (sin(rotation + 90), 0, cos(rotation + 90))
PropellerVelocity(r, propeller_speed) ==
  << Fx(propeller_speed * Sin(r + 90), 1000),
     0,
     Fx(propeller_speed * Cos(r + 90), 1000) >>

ImpulseAlong(pr, p, unit_normal) ==
  ImpulseOf(
    Fx(Dot(Sub(p.vel,
               PropellerVelocity(pr.rotation_z,
                                 Fx(pr.angular_v * ISqrt(Norm2(p.pos)), 3600))),
           unit_normal),
       1000),
    unit_normal)

ImpulseVector(pr, p) == ImpulseAlong(pr, p, UnitNormal(pr))

\* -angular_impulse_mag / moi, with moment_arm = (x, 0, z) and the impulse's
\* vertical component zeroed
DeltaAngularV(p, imp) ==
  LET moment_arm      == << p.pos[1], 0, p.pos[3] >>
      flat            == << imp[1], 0, imp[3] >>
      angular_impulse == Cross(moment_arm, flat)
      mag             == Dot(angular_impulse, << 0, -1, 0 >>)
  IN  Fx(-mag * MoiDen, MoiNum * 10)

\* One particle of the loop: st is [prop, ps, hit], to is where the
\* generator would put the particle
Struck(st, i, to, imp) ==
  [prop |-> [st.prop EXCEPT
               !.total_vertical_impulse = @ + imp[2],
               !.angular_v = @ + DeltaAngularV(st.ps[i], imp)],
   ps   |-> [st.ps EXCEPT ![i].pos = to],
   hit  |-> st.hit \cup {i}]

BladeOne(st, i, to) ==
  IF BladeHits(st.prop, st.ps[i].pos)
    THEN Struck(st, i, to, ImpulseVector(st.prop, st.ps[i]))
    ELSE st

RECURSIVE BladeLoop(_, _, _)
BladeLoop(st, i, reloc) ==
  IF i > Len(st.ps) THEN st
  ELSE BladeLoop(BladeOne(st, i, reloc[i]), i + 1, reloc)

BladeCollisions(pr, ps, reloc) ==
  BladeLoop([prop |-> pr, ps |-> ps, hit |-> {}], 1, reloc)

-----------------------------------------------------------------------------
(* update_rectangle_rotation                                               *)

\* rect.rotation_z >= 360.0 subtracts 360 once
WrapOnce(r) == IF r >= 360 THEN r - 360 ELSE r

\* (50000.0 * dt) / (moi * angular_v.to_radians()).to_degrees()
Drive(w, d) ==
  Fx(100 * DRIVE_POWER * d * MoiDen, MoiNum * Abs(w)) * (IF w < 0 THEN -1 ELSE 1)

UpdateRectangleRotation(pr, d) ==
  LET r0 == WrapOnce(pr.rotation_z)
      w  == pr.angular_v + Drive(pr.angular_v, d)
  IN  [pr EXCEPT !.angular_v      = w,
                 !.old_rotation_z = r0,
                 !.rotation_z     = r0 + Fx(w * d, 10)]

-----------------------------------------------------------------------------
(* controller and append_to_csv.  The controller is a function of the      *)
(* program state s = [total_time, trial, data, prop, parts, csv_len,       *)
(* exited], the frame's delta d, the outcome io of the file operations and *)
(* the particles fresh that the generator would produce.  The result also  *)
(* carries out, the record of what the call did.                           *)

Idle == [kind |-> "none"]

RECURSIVE SumSeq(_)
SumSeq(q) == IF q = << >> THEN 0 ELSE q[1] + SumSeq(Tail(q))

\* the division by 8.0 is forgotten
MeanNoDivision(q) == SumSeq(q)

\* avg starts at 0.0, adds every datum, and is divided by 8.0
Mean(q) == Fx(SumSeq(q), TRIALS_PER_ROW)

\* num.to_string(): the decimal text of the value
F32ToString(v) == << "f32", v >>

CsvRecord(q) == [i \in 1..Len(q) |-> F32ToString(q[i])]

IoOutcomes == {"ok", "open_failed", "write_failed", "flush_failed"}

\* OpenOptions::new().append(true).open(..)?, write_record(..)?, flush()?
AppendToCsv(len, q, io) ==
  IF io = "ok" THEN [ok |-> TRUE,  len |-> len + 1, record |-> CsvRecord(q)]
               ELSE [ok |-> FALSE, len |-> len,     record |-> << >>]

\* the pitch is stepped at every trial, not at every eighth
ResetBladeAndStep(pr) ==
  [pr EXCEPT !.rotation_z = 0, !.old_rotation_z = 0,
             !.angular_v = 10 * START_PROP_VELOCITY,
             !.total_vertical_impulse = 0,
             !.pitch = @ + THETA_PITCH]

ResetBlade(pr) ==
  [pr EXCEPT !.rotation_z = 0, !.old_rotation_z = 0,
             !.angular_v = 10 * START_PROP_VELOCITY,
             !.total_vertical_impulse = 0]

\* the group is taken to be complete one trial late
GroupCompleteLate(t) == t = TRIALS_PER_ROW + 1

GroupComplete(t) == t = TRIALS_PER_ROW

\* the exit test is made against the pitch of the group just run
TerminalReachedForGroupRun(pitch) == pitch - THETA_PITCH = TERMINAL_PITCH

TerminalReached(pitch) == pitch = TERMINAL_PITCH

\* the error of append_to_csv is propagated: the call returns at once
FinishGroupOrReturn(s, io) ==
  LET full  == Append(s.data, Mean(s.data))
      res   == AppendToCsv(s.csv_len, full, io)
      pitch == s.prop.pitch + THETA_PITCH
  IN  IF res.ok
        THEN [s EXCEPT !.prop.pitch = pitch,
                       !.data       = << >>,
                       !.trial      = 0,
                       !.csv_len    = res.len,
                       !.exited     = TerminalReached(pitch),
                       !.out        = [kind     |-> "group",
                                       record   |-> res.record,
                                       reported |-> FALSE,
                                       pitch0   |-> s.prop.pitch,
                                       len0     |-> s.csv_len]]
        ELSE [s EXCEPT !.out = [kind     |-> "group",
                                record   |-> << >>,
                                reported |-> TRUE,
                                pitch0   |-> s.prop.pitch,
                                len0     |-> s.csv_len]]

\* lines 100-120, entered with the sample pushed and the blade reset
FinishGroup(s, io) ==
  LET full  == Append(s.data, Mean(s.data))
      res   == AppendToCsv(s.csv_len, full, io)
      pitch == s.prop.pitch + THETA_PITCH
  IN  [s EXCEPT !.prop.pitch = pitch,
                !.data       = << >>,
                !.trial      = 0,
                !.csv_len    = res.len,
                !.exited     = TerminalReached(pitch),
                !.out        = [kind     |-> "group",
                                record   |-> res.record,
                                reported |-> ~res.ok,
                                pitch0   |-> s.prop.pitch,
                                len0     |-> s.csv_len]]

\* lines 86-129
Boundary(s, io, fresh) ==
  LET s1 == [s EXCEPT !.total_time = 0,
                      !.trial      = s.trial + 1,
                      !.data       = Append(s.data, s.prop.total_vertical_impulse),
                      !.prop       = ResetBlade(s.prop),
                      !.out        = [kind |-> "trial"]]
      s2 == IF GroupComplete(s1.trial) THEN FinishGroup(s1, io) ELSE s1
  IN  IF s2.exited THEN s2 ELSE [s2 EXCEPT !.parts = fresh]

Controller(s, d, io, fresh) ==
  LET s0 == [s EXCEPT !.total_time = s.total_time + d, !.out = [kind |-> "tick"]]
  IN  IF s0.total_time >= TRIAL_SECONDS THEN Boundary(s0, io, fresh) ELSE s0

-----------------------------------------------------------------------------
(* Bounds of the model.  The program spawns 400 particles and draws every *)
(* position from (-5.0, 5.0) and every velocity from (-1.0, 1.0) per axis; *)
(* the frame's delta is whatever the clock measured.                       *)

NParticles == 2

MaxTicks == 2

DtSet == {4, 6}

\* what one draw of the generator (position and velocity) may give: a
\* particle in the blade's slab, within two frames of the wall
RandPart == { [pos |-> << 1, 1, 21 >>, vel |-> << 9, 0, -1 >>] }

RandPos == { p.pos : p \in RandPart }

Swarm == [1..NParticles -> RandPart]

Stay(ps) == [i \in 1..Len(ps) |-> ps[i].pos]

\* where the generator may put the particles the blade strikes (the draw is
\* used for a struck particle only)
Relocations(pr, ps) ==
  { [i \in 1..Len(ps) |-> IF i \in DOMAIN f THEN f[i] ELSE ps[i].pos] :
      f \in [BladeCollisions(pr, ps, Stay(ps)).hit -> RandPos] }

-----------------------------------------------------------------------------
(* The Update schedule.  main adds the systems as one tuple without        *)
(* ordering constraints: every system runs once per frame, systems that    *)
(* touch the same components never overlap (all of these access Transform  *)
(* mutably), and the order within the frame is not fixed.                  *)
(* draw_boundary_cube only draws and is left out.                          *)

Systems == {"controller", "move_particles", "wall_collisions",
            "compare_particles", "update_rectangle_rotation",
            "blade_collisions"}

Prog == [total_time |-> total_time, trial |-> trial, data |-> data,
         prop |-> prop, parts |-> parts, csv_len |-> csv_len,
         exited |-> exited, out |-> out]

\* the history of samples starts afresh after a completed group
Pending == IF Len(sampled) = TRIALS_PER_ROW THEN << >> ELSE sampled

Propeller0 ==
  [rotation_z |-> 0, pitch |-> START_PITCH, angular_v |-> 10 * START_PROP_VELOCITY,
   old_rotation_z |-> 0, total_vertical_impulse |-> 0]

\* setup and spawn_particles
Init ==
  /\ total_time = 0
  /\ trial = 0
  /\ data = << >>
  /\ prop = Propeller0
  /\ parts \in Swarm
  /\ csv_len = 0
  /\ exited = FALSE
  /\ dt = 0
  /\ ran = Systems
  /\ ticks = 0
  /\ out = Idle
  /\ sampled = << >>
  /\ pre = Idle

\* a new frame: Time is updated, every system is due again
BeginTick ==
  /\ ~exited
  /\ ran = Systems
  /\ ticks < MaxTicks
  /\ \E d \in DtSet : dt' = d
  /\ ran' = {}
  /\ ticks' = ticks + 1
  /\ out' = Idle
  /\ sampled' = Pending
  /\ UNCHANGED <<total_time, trial, data, prop, parts, csv_len, exited, pre>>

\* a system may run again within the frame
DueAgain(sys) == ~exited /\ ran # Systems

\* a system runs once per frame
Due(sys) == ~exited /\ sys \notin ran

Done(sys) == ran' = ran \cup {sys} /\ UNCHANGED <<dt, ticks, pre>>

\* the program variables after a call of controller with delta d
ControllerCall(d, io, fresh) ==
  LET s == Controller(Prog, d, io, fresh) IN
    /\ total_time' = s.total_time
    /\ trial' = s.trial
    /\ data' = s.data
    /\ prop' = s.prop
    /\ parts' = s.parts
    /\ csv_len' = s.csv_len
    /\ exited' = s.exited
    /\ out' = s.out
    /\ sampled' = IF total_time + d >= TRIAL_SECONDS
                    THEN Append(Pending, prop.total_vertical_impulse)
                    ELSE Pending

\* the file is opened only when a group completes and the generator is
\* used only at a boundary: elsewhere the draw is immaterial
IoDraws(d) ==
  IF total_time + d >= TRIAL_SECONDS /\ GroupComplete(trial + 1)
    THEN IoOutcomes ELSE {"ok"}

SwarmDraws(d) == IF total_time + d >= TRIAL_SECONDS THEN Swarm ELSE {parts}

ControllerSys ==
  /\ Due("controller")
  /\ \E io \in IoDraws(dt), fresh \in SwarmDraws(dt) : ControllerCall(dt, io, fresh)
  /\ Done("controller")

Quiet == out' = Idle /\ sampled' = Pending
         /\ UNCHANGED <<total_time, trial, data, csv_len, exited>>

MoveSys ==
  /\ Due("move_particles")
  /\ parts' = MoveParticles(parts, dt)
  /\ UNCHANGED prop
  /\ Quiet
  /\ Done("move_particles")

WallSys ==
  /\ Due("wall_collisions")
  /\ parts' = WallCollisions(parts)
  /\ UNCHANGED prop
  /\ Quiet
  /\ Done("wall_collisions")

PairSys ==
  /\ Due("compare_particles")
  /\ parts' = CompareParticles(parts, dt).ps
  /\ UNCHANGED prop
  /\ Quiet
  /\ Done("compare_particles")

BladeSys ==
  /\ Due("blade_collisions")
  /\ \E reloc \in Relocations(prop, parts) :
       /\ prop' = BladeCollisions(prop, parts, reloc).prop
       /\ parts' = BladeCollisions(prop, parts, reloc).ps
  /\ Quiet
  /\ Done("blade_collisions")

DynamicsSys ==
  /\ Due("update_rectangle_rotation")
  /\ prop' = UpdateRectangleRotation(prop, dt)
  /\ UNCHANGED parts
  /\ Quiet
  /\ Done("update_rectangle_rotation")

Next ==
  \/ BeginTick
  \/ ControllerSys
  \/ MoveSys
  \/ WallSys
  \/ PairSys
  \/ BladeSys
  \/ DynamicsSys

Spec == Init /\ [][Next]_vars

-----------------------------------------------------------------------------
(* The trial controller over a whole experiment.  Between two calls of     *)
(* controller the other systems change the blade's rotation, angular       *)
(* velocity and accumulated impulse and the particles, and nothing else:   *)
(* none of them touches TIME_ELAPSED, TRIAL, DATA_ROW, the pitch or the    *)
(* file.  Physics stands for any number of their runs.                     *)

ImpulseSet == {0, 12}

Spun(v) ==
  [prop EXCEPT !.rotation_z = 370, !.old_rotation_z = 350,
               !.angular_v = 1130, !.total_vertical_impulse = v]

Physics ==
  /\ ~exited
  /\ \E v \in ImpulseSet : prop' = Spun(v)
  /\ UNCHANGED parts
  /\ Quiet
  /\ UNCHANGED <<dt, ran, ticks, pre>>

ControllerFrame ==
  /\ ~exited
  /\ \E d \in DtSet :
       /\ dt' = d
       /\ \E io \in IoDraws(d), fresh \in SwarmDraws(d) : ControllerCall(d, io, fresh)
  /\ UNCHANGED <<ran, ticks, pre>>

NextCtl == ControllerFrame \/ Physics

SpecCtl == Init /\ [][NextCtl]_vars

-----------------------------------------------------------------------------
(* Claims about the trial controller, checked under SpecCtl                *)

PitchValues == { START_PITCH + k * THETA_PITCH : k \in 0..8 }

GroupsDone == (prop.pitch - START_PITCH) \div THETA_PITCH

GroupStep == out.kind = "group"

\* C1, as stated: the process exits right after the row of the pitch group
\* that was run at pitch 85 has been written, and not while the last group
\* run had a pitch below 85.
C1_ExitAfterGroupRunAt85 ==
  exited => (GroupStep /\ out.pitch0 = TERMINAL_PITCH)

\* C1, amended: the process exits in the controller call that completes the
\* group run at pitch 80 (the call that raises the pitch to 85), right after
\* that group's row has been handed to append_to_csv, and at no other time;
\* once it has exited no step is possible, and no group is run at pitch 85.
C1_ExitWhenPitchReaches85 ==
  /\ exited <=> prop.pitch = TERMINAL_PITCH
  /\ exited => /\ GroupStep
               /\ out.pitch0 = TERMINAL_PITCH - THETA_PITCH
               /\ total_time = 0 /\ trial = 0 /\ data = << >>
               /\ ~ENABLED NextCtl
  /\ GroupStep => out.pitch0 < TERMINAL_PITCH

C1_Witness == exited /\ ~out.reported /\ csv_len = 8

\* C2: the pitch is always one of 45, 50, ..., 85; a step that changes it
\* adds exactly 5, is a call of controller, and is the call in which the
\* trial index reaches 8; the pitch is 85 only when the process has exited.
C2_PitchSteps ==
  /\ [](prop.pitch \in PitchValues /\ (prop.pitch = TERMINAL_PITCH => exited))
  /\ [][prop'.pitch # prop.pitch =>
          /\ prop'.pitch = prop.pitch + THETA_PITCH
          /\ trial + 1 = TRIALS_PER_ROW
          /\ total_time + dt' >= TRIAL_SECONDS
          /\ out'.kind = "group"]_vars

C2_Witness == GroupStep /\ prop.pitch = START_PITCH + 2 * THETA_PITCH

\* the mean of the sampled impulses, to the resolution of the model
IsMeanOf(v, q) == Abs(TRIALS_PER_ROW * v - SumSeq(q)) < TRIALS_PER_ROW

RecordOfSamples(rec, q) ==
  /\ Len(q) = TRIALS_PER_ROW
  /\ Len(rec) = TRIALS_PER_ROW + 1
  /\ \A i \in 1..TRIALS_PER_ROW : rec[i] = F32ToString(q[i])
  /\ rec[TRIALS_PER_ROW + 1][1] = "f32"
  /\ IsMeanOf(rec[TRIALS_PER_ROW + 1][2], q)

\* C3, as stated: every completed pitch group appends exactly one row, of
\* the 8 sampled impulses in order and their mean, and no row is written at
\* any other time (so the file holds one row per completed group).
C3_OneRowPerGroup ==
  /\ csv_len = GroupsDone
  /\ GroupStep => RecordOfSamples(out.record, sampled)

\* C3, amended: every completed pitch group calls append_to_csv exactly
\* once; when the call succeeds it appends exactly one row, of the 8 sampled
\* impulses in order and their mean (sum / 8); when it fails nothing is
\* appended; no row is written at any other time.
C3_OneAppendPerGroup ==
  /\ [](csv_len <= GroupsDone)
  /\ [](GroupStep =>
          IF out.reported
            THEN csv_len = out.len0 /\ out.record = << >>
            ELSE csv_len = out.len0 + 1 /\ RecordOfSamples(out.record, sampled))
  /\ [][csv_len' # csv_len => out'.kind = "group" /\ csv_len' = csv_len + 1]_vars
  /\ [][out'.kind = "group" <=> prop'.pitch = prop.pitch + THETA_PITCH]_vars

C3_Witness ==
  /\ GroupStep /\ ~out.reported
  /\ csv_len = out.len0 + 1
  /\ sampled = << 12, 0, 0, 12, 12, 0, 12, 12 >>
  /\ out.record[9] = F32ToString(7)

\* C4, as stated: the trial index is in 0..7 and the buffer holds at most 8
\* values; the index goes up by 1 at each boundary and is reset to 0 exactly
\* in the step in which a CSV row is written.
C4_ResetExactlyWhenRowWritten ==
  /\ [](trial \in 0..(TRIALS_PER_ROW - 1) /\ Len(data) <= TRIALS_PER_ROW)
  /\ [][(trial # 0 /\ trial' = 0) <=> csv_len' = csv_len + 1]_vars

\* C4, amended: the trial index is in 0..7 and the buffer holds at most 8
\* values (as many as the index); the index goes up by 1 at each boundary
\* and is reset to 0 exactly in the step that completes a group of 8 trials,
\* the step that calls append_to_csv, whether or not the row is appended.
C4_TrialIndexCycles ==
  /\ [](trial \in 0..(TRIALS_PER_ROW - 1) /\ Len(data) = trial)
  /\ [][/\ out'.kind = "trial" => trial' = trial + 1
        /\ out'.kind = "group" => trial + 1 = TRIALS_PER_ROW /\ trial' = 0
        /\ out'.kind \in {"none", "tick"} => trial' = trial]_vars
  /\ [][(trial # 0 /\ trial' = 0) <=> out'.kind = "group"]_vars

C4_Witness == GroupStep /\ out.reported /\ trial = 0 /\ data = << >> /\ ~exited

\* C5: when append_to_csv fails the failure is reported and nothing else
\* differs from a successful write: no row is appended and none is retried,
\* the pitch is raised by 5, the buffer is cleared, the trial index is 0,
\* and the process exits exactly if the pitch has reached 85.
C5_FailedAppendGoesOn ==
  (GroupStep /\ out.reported) =>
     /\ csv_len = out.len0
     /\ prop.pitch = out.pitch0 + THETA_PITCH
     /\ data = << >>
     /\ trial = 0
     /\ total_time = 0
     /\ exited <=> prop.pitch = TERMINAL_PITCH

C5_Witness == GroupStep /\ out.reported /\ exited /\ csv_len = 0

-----------------------------------------------------------------------------
(* wall_collisions on its own: one call on particles at, just inside and   *)
(* just outside the walls, on every axis and either side.                  *)

BOUNDING_BOX_SIZE == 102

WallReach == 2

WallCoords == { sg * (WALL + k) : sg \in {-1, 1}, k \in (-1)..WallReach } \cup {0}

WallInputs ==
  { << [pos |-> << x, y, z >>, vel |-> v], q >> :
      x \in WallCoords, y \in WallCoords, z \in WallCoords,
      v \in { << 3, -2, 0 >>, << -1, 4, 7 >> },
      q \in { [pos |-> << WALL + 1, -(WALL + 1), 0 >>, vel |-> << 5, 5, 5 >>],
              [pos |-> << 0, WALL, -WALL >>, vel |-> << -6, 1, 2 >>] } }

InitWall ==
  /\ total_time = 0
  /\ trial = 0
  /\ data = << >>
  /\ prop = Propeller0
  /\ parts \in WallInputs
  /\ csv_len = 0
  /\ exited = FALSE
  /\ dt = 0
  /\ ran = {}
  /\ ticks = 0
  /\ out = Idle
  /\ sampled = << >>
  /\ pre = Idle

WallStep ==
  /\ pre = Idle
  /\ parts' = WallCollisions(parts)
  /\ pre' = [kind |-> "wall", parts |-> parts]
  /\ UNCHANGED <<total_time, trial, data, prop, csv_len, exited, dt, ran,
                 ticks, out, sampled>>

NextWall == WallStep

SpecWall == InitWall /\ [][NextWall]_vars

Axes == 1..3

\* half the cube size, 5.1
HalfCube == BOUNDING_BOX_SIZE \div 2

Sign(c) == IF c < 0 THEN -1 ELSE 1

\* what the reflector is to do with one coordinate and its velocity
\* component when the boundary is at distance half from the centre
Reflected(before, after, a, half) ==
  IF Abs(before.pos[a]) > half
    THEN /\ after.pos[a] = Sign(before.pos[a]) * half
         /\ after.vel[a] = -before.vel[a]
    ELSE /\ after.pos[a] = before.pos[a]
         /\ after.vel[a] = before.vel[a]

\* C6, as stated: after the Wall Reflector every coordinate is within 5.1
\* (half the cube size) of the centre; a coordinate beyond 5.1 is clamped to
\* plus or minus 5.1 and its velocity component negated; coordinates within
\* 5.1 and their velocity components are unchanged.
C6_ReflectAtHalfCube ==
  pre.kind = "wall" =>
    \A i \in DOMAIN parts : \A a \in Axes :
      /\ Abs(parts[i].pos[a]) <= HalfCube
      /\ Reflected(pre.parts[i], parts[i], a, HalfCube)

\* C6, amended: after the Wall Reflector every coordinate is within 5.0 of
\* the centre; a coordinate beyond 5.0 is clamped to plus or minus 5.0 with
\* its sign kept and its velocity component negated; coordinates within 5.0
\* and their velocity components are unchanged.
C6_ReflectAtFive ==
  pre.kind = "wall" =>
    \A i \in DOMAIN parts : \A a \in Axes :
      /\ Abs(parts[i].pos[a]) <= WALL
      /\ Reflected(pre.parts[i], parts[i], a, WALL)

C6_Witness ==
  /\ pre.kind = "wall"
  /\ pre.parts[1].pos = << WALL + 1, -(WALL + 2), WALL >>
  /\ pre.parts[1].vel = << 3, -2, 0 >>
  /\ parts[1].pos = << WALL, -WALL, WALL >>
  /\ parts[1].vel = << -3, 2, 0 >>

-----------------------------------------------------------------------------
(* compare_particles on its own: one call on three particles on a line,    *)
(* with pairwise different velocities or not, for either frame delta.      *)

PairSpan == 6

PairVels == { << 1, 0, 0 >>, << -1, 0, 1 >>, << 0, 2, 0 >> }

PairInputs ==
  { << [pos |-> << x1, 0, 0 >>, vel |-> v1],
       [pos |-> << x2, 0, 0 >>, vel |-> v2],
       [pos |-> << x3, 0, 0 >>, vel |-> v3] >> :
      x1 \in {0, 1}, x2 \in (-PairSpan)..PairSpan, x3 \in (-PairSpan)..PairSpan,
      v1 \in PairVels, v2 \in PairVels, v3 \in PairVels }

InitPair ==
  /\ total_time = 0
  /\ trial = 0
  /\ data = << >>
  /\ prop = Propeller0
  /\ parts \in PairInputs
  /\ csv_len = 0
  /\ exited = FALSE
  /\ dt = 0
  /\ ran = {}
  /\ ticks = 0
  /\ out = Idle
  /\ sampled = << >>
  /\ pre = Idle

PairStep ==
  /\ pre = Idle
  /\ \E d \in DtSet :
       /\ dt' = d
       /\ parts' = CompareParticles(parts, d).ps
       /\ out' = [kind |-> "pair", hit |-> CompareParticles(parts, d).hit]
  /\ pre' = [kind |-> "pair", parts |-> parts]
  /\ UNCHANGED <<total_time, trial, data, prop, csv_len, exited, ran, ticks,
                 sampled>>

NextPair == PairStep

SpecPair == InitPair /\ [][NextPair]_vars

\* how many particles of ps have velocity v
CountVel(ps, v) == Cardinality({ i \in DOMAIN ps : ps[i].vel = v })

SameVelocities(ps, qs) ==
  \A v \in { ps[i].vel : i \in DOMAIN ps } \cup { qs[i].vel : i \in DOMAIN qs } :
    CountVel(ps, v) = CountVel(qs, v)

\* one collision of the pair (i, j) exchanges the two velocities
SwapsPair(ps, i, j, d) ==
  LET r == PairCollide([ps |-> ps, hit |-> {}], i, j, d).ps IN
    /\ r[i].vel = ps[j].vel
    /\ r[j].vel = ps[i].vel
    /\ Add(r[i].vel, r[j].vel) = Add(ps[i].vel, ps[j].vel)
    /\ \A k \in DOMAIN ps \ {i, j} : r[k] = ps[k]

\* i is in no pair within 0.2 among the positions ps
Apart(ps, i) ==
  \A j \in DOMAIN ps \ {i} : ~Within(ps[i].pos, ps[j].pos, PAIR_RADIUS)

\* C7, as stated: one run of the Particle Pair Resolver preserves the
\* multiset of velocities, every collision swaps the two velocities of its
\* pair, and a particle that is in no pair within 0.2 (before the run) keeps
\* its position and velocity.
C7_ApartBeforeRunUntouched ==
  pre.kind = "pair" =>
    /\ SameVelocities(pre.parts, parts)
    /\ \A i \in DOMAIN parts : \A j \in DOMAIN parts :
         i < j => SwapsPair(pre.parts, i, j, dt)
    /\ \A i \in DOMAIN parts : Apart(pre.parts, i) => parts[i] = pre.parts[i]

\* C7, amended: one run preserves the multiset of velocities, every
\* collision swaps the two velocities of its pair (also for a particle in
\* several collisions), and a particle that takes part in no collision of
\* the run keeps its position and velocity; the pairs are tested in loop
\* order on the positions of that moment, so a run in which no pair is
\* within 0.2 at the start changes nothing, while a push-back may bring a
\* particle within 0.2 of one that was apart from every other at the start.
C7_UncollidedUntouched ==
  pre.kind = "pair" =>
    /\ SameVelocities(pre.parts, parts)
    /\ \A i \in DOMAIN parts : \A j \in DOMAIN parts :
         i < j => SwapsPair(pre.parts, i, j, dt)
    /\ \A i \in DOMAIN parts : i \notin out.hit => parts[i] = pre.parts[i]
    /\ (\A i \in DOMAIN parts : Apart(pre.parts, i)) => (parts = pre.parts /\ out.hit = {})

C7_Witness ==
  /\ pre.kind = "pair"
  /\ out.hit = {1, 2, 3}
  /\ Apart(pre.parts, 3)
  /\ parts[3] # pre.parts[3]
  /\ Cardinality({ pre.parts[i].vel : i \in 1..3 }) = 3
  /\ SameVelocities(pre.parts, parts)

-----------------------------------------------------------------------------
(* blade_collisions on its own: one call, for blades of two pitches, two   *)
(* sweeps and two speeds (the initial one and the one after a first frame   *)
(* of 4 seconds), on particles inside and outside each gate.               *)

NBlade == 2

BladeInputs ==
  { [Propeller0 EXCEPT !.pitch = pt, !.old_rotation_z = sw[1],
                       !.rotation_z = sw[2], !.angular_v = w] :
      pt \in {START_PITCH, START_PITCH + 3 * THETA_PITCH},
      sw \in { << 0, 80 >>, << 350, 370 >> },
      w  \in {Propeller0.angular_v, UpdateRectangleRotation(Propeller0, 4).angular_v} }

BladeTargets ==
  { [pos |-> ps, vel |-> v] :
      ps \in { << 1, 1, 21 >>, << 10, -2, 37 >>, << 1, 4, 21 >>, << 30, 1, 30 >>,
               << -10, 0, -20 >>, << 45, 5, 0 >>, << 0, 0, 0 >> },
      v  \in { << 9, 0, -1 >>, << 0, -8, 3 >> } }

InitBlade ==
  /\ total_time = 0
  /\ trial = 0
  /\ data = << >>
  /\ prop \in BladeInputs
  /\ parts \in [1..NBlade -> BladeTargets]
  /\ csv_len = 0
  /\ exited = FALSE
  /\ dt = 0
  /\ ran = {}
  /\ ticks = 0
  /\ out = Idle
  /\ sampled = << >>
  /\ pre = Idle

BladeStep ==
  /\ pre = Idle
  /\ \E reloc \in Relocations(prop, parts) :
       /\ prop' = BladeCollisions(prop, parts, reloc).prop
       /\ parts' = BladeCollisions(prop, parts, reloc).ps
       /\ out' = [kind |-> "blade", hit |-> BladeCollisions(prop, parts, reloc).hit]
  /\ pre' = [kind |-> "blade", prop |-> prop, parts |-> parts]
  /\ UNCHANGED <<total_time, trial, data, csv_len, exited, dt, ran, ticks,
                 sampled>>

NextBlade == BladeStep

SpecBlade == InitBlade /\ [][NextBlade]_vars

PassesGates(pr, pos) == VerticalGate(pr, pos) /\ RadialGate(pos)

\* C8: the Blade Interaction Resolver leaves position and velocity of every
\* particle that fails the vertical or the radial gate unchanged; a particle
\* is relocated only if it passes both gates and the sweep-window test (its
\* velocity is kept even then); and the blade changes only by such a hit,
\* and only in its accumulated vertical impulse and its angular velocity.
C8_GatesFrame ==
  pre.kind = "blade" =>
    /\ \A i \in DOMAIN parts :
         ~PassesGates(pre.prop, pre.parts[i].pos) => parts[i] = pre.parts[i]
    /\ \A i \in DOMAIN parts :
         parts[i] # pre.parts[i] =>
           /\ PassesGates(pre.prop, pre.parts[i].pos)
           /\ SweepWindow(pre.prop, pre.parts[i].pos)
           /\ parts[i].vel = pre.parts[i].vel
    /\ \A i \in DOMAIN parts :
         i \in out.hit <=> /\ PassesGates(pre.prop, pre.parts[i].pos)
                           /\ SweepWindow(pre.prop, pre.parts[i].pos)
    /\ out.hit = {} => prop = pre.prop
    /\ [prop EXCEPT !.total_vertical_impulse = pre.prop.total_vertical_impulse,
                    !.angular_v = pre.prop.angular_v] = pre.prop

C8_Witness ==
  /\ pre.kind = "blade"
  /\ out.hit = {1}
  /\ parts[1].pos # pre.parts[1].pos
  /\ prop.total_vertical_impulse # pre.prop.total_vertical_impulse
  /\ prop.angular_v # pre.prop.angular_v
  /\ ~VerticalGate(pre.prop, pre.parts[2].pos)
  /\ RadialGate(pre.parts[2].pos)
  /\ SweepWindow(pre.prop, pre.parts[2].pos)
  /\ parts[2] = pre.parts[2]

-----------------------------------------------------------------------------
(* Claims about the frame, checked under Spec                              *)

StageOrder ==
  << "controller", "move_particles", "wall_collisions", "compare_particles",
     "blade_collisions", "update_rectangle_rotation" >>

C10_RotationWrapped ==
  /\ 0 <= prop.rotation_z
  /\ prop.rotation_z < 360
  /\ prop.old_rotation_z <= prop.rotation_z

=============================================================================
